---- MODULE Spec2Model ----
(***************************************************************************)
(* Model of plugins/node_block_sync/main.go: the block-height probe        *)
(* pluginFeature, its process-wide state (prevHeight, warningCount,        *)
(* criticalCount) and the hex parser hexToInt64.                           *)
(*                                                                         *)
(* Strings are sequences of one-character strings.  A big.Int and an int64 *)
(* are both written as a sign and a magnitude, the magnitude being the     *)
(* sequence of its base-16 digits, most significant first, without leading *)
(* zeros (zero is the empty sequence): 64-bit quantities do not fit the    *)
(* integers of the model checker, digit sequences do.                      *)
(***************************************************************************)
EXTENDS Integers, Sequences, FiniteSets, TLC

VARIABLES prevHeight, warningCount, criticalCount, ret, retErr, hexStr, parsed, last, hist,
          calls, race

vars == <<prevHeight, warningCount, criticalCount, ret, retErr, hexStr, parsed, last, hist,
          calls, race>>

(***************************************************************************)
(* Bounds of the model.                                                    *)
(***************************************************************************)
\* longest string of the exhaustively enumerated parser inputs
MaxLen == 3
\* number of invocations of pluginFeature in one behaviour
MaxTicks == 4

(***************************************************************************)
(* Characters and digit sequences.                                         *)
(***************************************************************************)
DecimalChars == <<"0", "1", "2", "3", "4", "5", "6", "7", "8", "9">>

LowerChars == <<"a", "b", "c", "d", "e", "f", "g", "h", "i", "j", "k", "l", "m",
                "n", "o", "p", "q", "r", "s", "t", "u", "v", "w", "x", "y", "z">>

UpperChars == <<"A", "B", "C", "D", "E", "F", "G", "H", "I", "J", "K", "L", "M",
                "N", "O", "P", "Q", "R", "S", "T", "U", "V", "W", "X", "Y", "Z">>

InSeq(seq, ch) == \E i \in 1..Len(seq) : seq[i] = ch

IndexOf(seq, ch) == CHOOSE i \in 1..Len(seq) : seq[i] = ch

\* math/big: MaxBase and maxBaseSmall of the digit scanner
MaxBase == 62

maxBaseSmall == 36

\* DigitVal without the +10 of the upper-case letters
DigitValUpperFromZero(ch, b) ==
    IF InSeq(DecimalChars, ch) THEN IndexOf(DecimalChars, ch) - 1
    ELSE IF InSeq(LowerChars, ch) THEN IndexOf(LowerChars, ch) - 1 + 10
    ELSE IF InSeq(UpperChars, ch) THEN IndexOf(UpperChars, ch) - 1
    ELSE MaxBase + 1

\* the scanner's conversion of one character into a digit value; a value
\* >= the base means "not a digit"
DigitVal(ch, b) ==
    IF InSeq(DecimalChars, ch) THEN IndexOf(DecimalChars, ch) - 1
    ELSE IF InSeq(LowerChars, ch) THEN IndexOf(LowerChars, ch) - 1 + 10
    ELSE IF InSeq(UpperChars, ch)
         THEN (IF b <= maxBaseSmall THEN IndexOf(UpperChars, ch) - 1 + 10
               ELSE IndexOf(UpperChars, ch) - 1 + maxBaseSmall)
    ELSE MaxBase + 1

\* z*16 + d on a normalised magnitude
MulAddDigit(z, d) == IF z = <<>> /\ d = 0 THEN <<>> ELSE Append(z, d)

RECURSIVE Norm(_)
\* a digit sequence without its leading zeros
Norm(z) == IF z # <<>> /\ Head(z) = 0 THEN Norm(Tail(z)) ELSE z

\* magnitude comparison: a < b
AbsLess(a, b) ==
    \/ Len(a) < Len(b)
    \/ /\ Len(a) = Len(b)
       /\ \E i \in 1..Len(a) :
            /\ a[i] < b[i]
            /\ \A j \in 1..(i - 1) : a[j] = b[j]

Rep(x, n) == [i \in 1..n |-> x]

\* number of base-16 digits of a 64-bit word
WordDigits == 16

\* the magnitude 2^63
Abs2p63 == <<8>> \o Rep(0, WordDigits - 1)

Zero64 == [neg |-> FALSE, abs |-> <<>>]

\* int64 comparison a < b
Less64(a, b) ==
    IF a.neg /\ ~b.neg THEN TRUE
    ELSE IF ~a.neg /\ b.neg THEN FALSE
    ELSE IF a.neg THEN AbsLess(b.abs, a.abs)
    ELSE AbsLess(a.abs, b.abs)

(***************************************************************************)
(* big.Int.SetString(s, 16), IsInt64 and Int64.                            *)
(***************************************************************************)
\* optional sign in front of the digits
scanSign(s) ==
    IF s = <<>> THEN [ok |-> FALSE, neg |-> FALSE, rest |-> s]
    ELSE IF Head(s) = "-" THEN [ok |-> TRUE, neg |-> TRUE, rest |-> Tail(s)]
    ELSE IF Head(s) = "+" THEN [ok |-> TRUE, neg |-> FALSE, rest |-> Tail(s)]
    ELSE [ok |-> TRUE, neg |-> FALSE, rest |-> s]

RECURSIVE natScan(_, _, _, _)
\* digits are consumed while they belong to the base; the first other
\* character is left unread
natScan(s, b, z, count) ==
    IF s = <<>> THEN [abs |-> z, count |-> count, rest |-> s]
    ELSE IF DigitVal(Head(s), b) >= b THEN [abs |-> z, count |-> count, rest |-> s]
    ELSE natScan(Tail(s), b, MulAddDigit(z, DigitVal(Head(s), b)), count + 1)

\* (*Int).SetString: sign, at least one digit, and nothing after the digits
SetString(s, b) ==
    LET sg == scanSign(s)
        sc == natScan(sg.rest, b, <<>>, 0)
    IN  IF ~sg.ok \/ sc.count = 0 \/ sc.rest # <<>>
        THEN [ok |-> FALSE, n |-> Zero64]
        ELSE [ok |-> TRUE, n |-> [neg |-> (sc.abs # <<>> /\ sg.neg), abs |-> sc.abs]]

\* the low 64 bits of a magnitude
low64(abs) ==
    IF Len(abs) <= WordDigits THEN abs
    ELSE Norm(SubSeq(abs, Len(abs) - WordDigits + 1, Len(abs)))

\* (*Int).IsInt64: one word, and either the word is non-negative as an int64
\* or the value is -2^63
IsInt64(x) ==
    IF Len(x.abs) <= WordDigits
    THEN \/ AbsLess(low64(x.abs), Abs2p63)
         \/ (x.neg /\ low64(x.abs) = Abs2p63)
    ELSE FALSE

RECURSIVE AddOne(_)
\* u + 1 on a digit sequence of fixed length, the carry out of the top dropped
AddOne(u) ==
    IF u = <<>> THEN <<>>
    ELSE IF u[Len(u)] < 15 THEN SubSeq(u, 1, Len(u) - 1) \o <<u[Len(u)] + 1>>
    ELSE AddOne(SubSeq(u, 1, Len(u) - 1)) \o <<0>>

\* 2^64 - u for 0 < u < 2^64
TwosNeg(u) ==
    LET padded == Rep(0, WordDigits - Len(u)) \o u
    IN  Norm(AddOne([i \in 1..WordDigits |-> 15 - padded[i]]))

\* the int64 whose bit pattern is the word u
AsInt64(u) ==
    IF AbsLess(u, Abs2p63) THEN [neg |-> FALSE, abs |-> u]
    ELSE [neg |-> TRUE, abs |-> TwosNeg(u)]

\* -v in 64-bit two's complement (-(-2^63) = -2^63)
Neg64(v) ==
    IF v.abs = <<>> THEN v
    ELSE IF v.neg /\ v.abs = Abs2p63 THEN v
    ELSE [neg |-> ~v.neg, abs |-> v.abs]

\* (*Int).Int64: the low word as an int64, negated for a negative number
Int64(x) ==
    LET v == AsInt64(low64(x.abs))
    IN  IF x.neg THEN Neg64(v) ELSE v

(***************************************************************************)
(* hexToInt64                                                              *)
(***************************************************************************)
Nil == "nil"

ErrParseHex == "failed to parse hex string"

ErrTooLarge == "hex value too large for int64"

\* the "0x" prefix is removed when present
StripPrefix(s) ==
    IF Len(s) >= 2 /\ SubSeq(s, 1, 2) = <<"0", "x">> THEN SubSeq(s, 3, Len(s)) ELSE s

hexToInt64(s) ==
    LET r == SetString(StripPrefix(s), 16)
    IN  IF ~r.ok THEN [val |-> Zero64, err |-> ErrParseHex]
        ELSE IF ~IsInt64(r.n) THEN [val |-> Zero64, err |-> ErrTooLarge]
        ELSE [val |-> Int64(r.n), err |-> Nil]

(***************************************************************************)
(* The JSON-RPC exchange: what client.R()...Post(url) hands back, and      *)
(* json.Unmarshal of the body into a BlockHeightResponse.                  *)
(***************************************************************************)
ErrTransport == "connection refused"

ErrDecode == "invalid JSON"

Str0x(digits) == <<"0", "x">> \o digits

\* result strings a node answers with in the detector runs: heights 0, 1
\* and 2, a malformed string, 2^63, and a signed string
TickResults ==
    { Str0x(<<"0">>), Str0x(<<"1">>), Str0x(<<"2">>), Str0x(<<"z", "z">>),
      Str0x(<<"8">> \o Rep("0", WordDigits - 1)), <<"-", "1">> }

\* Post: a transport error, or a response whose body decodes or does not
Posts ==
    { [err |-> ErrTransport, json |-> FALSE, result |-> <<>>],
      [err |-> Nil, json |-> FALSE, result |-> <<>>] }
    \cup { [err |-> Nil, json |-> TRUE, result |-> s] : s \in TickResults }

\* json.Unmarshal(resp.Body(), &blockHeightResp)
Unmarshal(post) ==
    IF post.json THEN [err |-> Nil, Result |-> post.result]
    ELSE [err |-> ErrDecode, Result |-> <<>>]

(***************************************************************************)
(* State.                                                                  *)
(***************************************************************************)
defaultCriticalCount == 3

\* values of the -critical flag
CriticalFlags == {-1, 0, 1, defaultCriticalCount}

NotCalled == "NOT_CALLED"

NoRet == [Message |-> <<NotCalled>>, Severity |-> NotCalled, State |-> NotCalled]

NoParse == [val |-> Zero64, err |-> NotCalled]

NoTick ==
    [post |-> [err |-> NotCalled, json |-> FALSE, result |-> <<>>],
     prevHeight |-> Zero64, warningCount |-> 0, compared |-> FALSE]

\* the goroutines in which the host runs overlapping calls of pluginFeature
Goroutines == {"g1", "g2"}

\* a goroutine that is not in pluginFeature: no call yet
IdleCall ==
    [pc |-> "idle", post |-> NoTick.post, latestHeight |-> Zero64, load |-> 0,
     ret |-> NoRet, err |-> NotCalled]

\* calls one after the other: no goroutine is ever inside pluginFeature
\* between two steps
NoCalls == [g \in Goroutines |-> IdleCall]

NoRace == [prevHeight |-> Zero64, warningCount |-> 0, overlapped |-> FALSE]

\* Init with -1 in prevHeight for "no height observed yet"
InitNoHeightYet ==
    /\ prevHeight = [neg |-> TRUE, abs |-> <<1>>]
    /\ warningCount = 0
    /\ criticalCount \in CriticalFlags
    /\ ret = NoRet
    /\ retErr = NotCalled
    /\ hexStr = <<>>
    /\ parsed = NoParse
    /\ last = NoTick
    /\ hist = <<>>
    /\ calls = NoCalls
    /\ race = NoRace

Init ==
    /\ prevHeight = Zero64
    /\ warningCount = 0
    /\ criticalCount \in CriticalFlags
    /\ ret = NoRet
    /\ retErr = NotCalled
    /\ hexStr = <<>>
    /\ parsed = NoParse
    /\ last = NoTick
    /\ hist = <<>>
    /\ calls = NoCalls
    /\ race = NoRace

(***************************************************************************)
(* pluginFeature: one invocation by the host, from the Post to the return. *)
(***************************************************************************)
\* ret as declared at the top of pluginFeature
InitialRet ==
    [Message |-> <<"Unable to fetch block height">>, Severity |-> "UNKNOWN", State |-> "NONE"]

\* FailureRet that sets the message only
FailureRetMessageOnly(format, err) ==
    [InitialRet EXCEPT !.Message = <<format, err>>]

\* the three early returns
FailureRet(format, err) ==
    [InitialRet EXCEPT !.Message = <<format, err>>, !.Severity = "CRITICAL", !.State = "FAILURE"]

\* Classify that takes a threshold below 1 for the default
ClassifyDefaultsBelowOne(latestHeight, prev, count, critical) ==
    IF Less64(prev, latestHeight)
    THEN [Severity |-> "INFO",
          Message |-> <<"Block height increasing. Current height: %d", latestHeight>>,
          warningCount |-> 0]
    ELSE IF count + 1 > (IF critical < 1 THEN defaultCriticalCount ELSE critical)
    THEN [Severity |-> "CRITICAL",
          Message |-> <<"Block height stuck more than %d times. Current height: %d",
                        critical, latestHeight>>,
          warningCount |-> count + 1]
    ELSE [Severity |-> "WARNING",
          Message |-> <<"Block height stuck %d times. Current height: %d",
                        count + 1, latestHeight>>,
          warningCount |-> count + 1]

\* Classify without the reset of warningCount
ClassifyNoReset(latestHeight, prev, count, critical) ==
    IF Less64(prev, latestHeight)
    THEN [Severity |-> "INFO",
          Message |-> <<"Block height increasing. Current height: %d", latestHeight>>,
          warningCount |-> count]
    ELSE IF count + 1 > critical
    THEN [Severity |-> "CRITICAL",
          Message |-> <<"Block height stuck more than %d times. Current height: %d",
                        critical, latestHeight>>,
          warningCount |-> count + 1]
    ELSE [Severity |-> "WARNING",
          Message |-> <<"Block height stuck %d times. Current height: %d",
                        count + 1, latestHeight>>,
          warningCount |-> count + 1]

\* Classify with >= in place of > at the threshold
ClassifyAtThreshold(latestHeight, prev, count, critical) ==
    IF Less64(prev, latestHeight)
    THEN [Severity |-> "INFO",
          Message |-> <<"Block height increasing. Current height: %d", latestHeight>>,
          warningCount |-> 0]
    ELSE IF count + 1 >= critical
    THEN [Severity |-> "CRITICAL",
          Message |-> <<"Block height stuck more than %d times. Current height: %d",
                        critical, latestHeight>>,
          warningCount |-> count + 1]
    ELSE [Severity |-> "WARNING",
          Message |-> <<"Block height stuck %d times. Current height: %d",
                        count + 1, latestHeight>>,
          warningCount |-> count + 1]

\* Classify that starts the count again once CRITICAL was raised
ClassifyRestartAfterCritical(latestHeight, prev, count, critical) ==
    IF Less64(prev, latestHeight)
    THEN [Severity |-> "INFO",
          Message |-> <<"Block height increasing. Current height: %d", latestHeight>>,
          warningCount |-> 0]
    ELSE IF count + 1 > critical
    THEN [Severity |-> "CRITICAL",
          Message |-> <<"Block height stuck more than %d times. Current height: %d",
                        critical, latestHeight>>,
          warningCount |-> 0]
    ELSE [Severity |-> "WARNING",
          Message |-> <<"Block height stuck %d times. Current height: %d",
                        count + 1, latestHeight>>,
          warningCount |-> count + 1]

\* the comparison of the new height with prevHeight and what it does to
\* warningCount: the severity, the message and the new counter
Classify(latestHeight, prev, count, critical) ==
    IF Less64(prev, latestHeight)
    THEN [Severity |-> "INFO",
          Message |-> <<"Block height increasing. Current height: %d", latestHeight>>,
          warningCount |-> 0]
    ELSE IF count + 1 > critical
    THEN [Severity |-> "CRITICAL",
          Message |-> <<"Block height stuck more than %d times. Current height: %d",
                        critical, latestHeight>>,
          warningCount |-> count + 1]
    ELSE [Severity |-> "WARNING",
          Message |-> <<"Block height stuck %d times. Current height: %d",
                        count + 1, latestHeight>>,
          warningCount |-> count + 1]

\* Failed that returns a nil error
FailedNilError(format, err, prev, count, parseCalled) ==
    [ret |-> FailureRet(format, err), err |-> Nil,
     prevHeight |-> prev, warningCount |-> count,
     parseCalled |-> parseCalled, compared |-> FALSE]

\* Failed that counts the failed call as a stall
FailedCountsStall(format, err, prev, count, parseCalled) ==
    [ret |-> FailureRet(format, err), err |-> err,
     prevHeight |-> prev, warningCount |-> count + 1,
     parseCalled |-> parseCalled, compared |-> FALSE]

\* Failed that forgets the previous height
FailedForgetsHeight(format, err, prev, count, parseCalled) ==
    [ret |-> FailureRet(format, err), err |-> err,
     prevHeight |-> Zero64, warningCount |-> count,
     parseCalled |-> parseCalled, compared |-> FALSE]

\* an early return: (ret, err) with the globals as they were
Failed(format, err, prev, count, parseCalled) ==
    [ret |-> FailureRet(format, err), err |-> err,
     prevHeight |-> prev, warningCount |-> count,
     parseCalled |-> parseCalled, compared |-> FALSE]

\* Succeeded that moves prevHeight only upwards
SucceededKeepsHighest(latestHeight, prev, count, critical) ==
    LET c == Classify(latestHeight, prev, count, critical)
    IN  [ret |-> [InitialRet EXCEPT !.Message = c.Message, !.Severity = c.Severity,
                                    !.State = "SUCCESS"],
         err |-> Nil,
         prevHeight |-> IF Less64(prev, latestHeight) THEN latestHeight ELSE prev,
         warningCount |-> c.warningCount,
         parseCalled |-> TRUE, compared |-> TRUE]

\* the path after a successful parse: classification, STATE_SUCCESS,
\* prevHeight = latestHeight, and a nil error
Succeeded(latestHeight, prev, count, critical) ==
    LET c == Classify(latestHeight, prev, count, critical)
    IN  [ret |-> [InitialRet EXCEPT !.Message = c.Message, !.Severity = c.Severity,
                                    !.State = "SUCCESS"],
         err |-> Nil,
         prevHeight |-> latestHeight, warningCount |-> c.warningCount,
         parseCalled |-> TRUE, compared |-> TRUE]

\* one whole call: the returned (ret, err), the new globals, and whether
\* hexToInt64 was called and the comparison reached
Evaluate(post, prev, count, critical) ==
    LET dec == Unmarshal(post)
        h == hexToInt64(dec.Result)
    IN  IF post.err # Nil
        THEN Failed("Failed to get response: %v", post.err, prev, count, FALSE)
        ELSE IF dec.err # Nil
        THEN Failed("Failed to parse response: %v", dec.err, prev, count, FALSE)
        ELSE IF h.err # Nil
        THEN Failed("Failed to convert hex to int64: %v", h.err, prev, count, TRUE)
        ELSE Succeeded(h.val, prev, count, critical)

\* pluginFeature in a process that an error return has ended
pluginFeatureExitsOnError(post) ==
    /\ Len(hist) < MaxTicks
    /\ retErr \in {Nil, NotCalled}
    /\ LET e == Evaluate(post, prevHeight, warningCount, criticalCount)
       IN  /\ ret' = e.ret
           /\ retErr' = e.err
           /\ prevHeight' = e.prevHeight
           /\ warningCount' = e.warningCount
           /\ hexStr' = IF e.parseCalled THEN Unmarshal(post).Result ELSE hexStr
           /\ parsed' = IF e.parseCalled THEN hexToInt64(Unmarshal(post).Result) ELSE parsed
           /\ last' = [post |-> post, prevHeight |-> prevHeight,
                       warningCount |-> warningCount, compared |-> e.compared]
           /\ hist' = Append(hist, [post |-> post, ret |-> e.ret, err |-> e.err])
    /\ UNCHANGED <<criticalCount, calls, race>>

pluginFeature(post) ==
    /\ Len(hist) < MaxTicks
    /\ LET e == Evaluate(post, prevHeight, warningCount, criticalCount)
       IN  /\ ret' = e.ret
           /\ retErr' = e.err
           /\ prevHeight' = e.prevHeight
           /\ warningCount' = e.warningCount
           /\ hexStr' = IF e.parseCalled THEN Unmarshal(post).Result ELSE hexStr
           /\ parsed' = IF e.parseCalled THEN hexToInt64(Unmarshal(post).Result) ELSE parsed
           /\ last' = [post |-> post, prevHeight |-> prevHeight,
                       warningCount |-> warningCount, compared |-> e.compared]
           /\ hist' = Append(hist, [post |-> post, ret |-> e.ret, err |-> e.err])
    /\ UNCHANGED <<criticalCount, calls, race>>

Next == \E post \in Posts : pluginFeature(post)

Spec == Init /\ [][Next]_vars

\* the host keeps invoking the check on its schedule
FairSpec == Spec /\ WF_vars(Next)

(***************************************************************************)
(* hexToInt64 on its own: the argument is drawn at the start, one step     *)
(* calls the function.                                                     *)
(***************************************************************************)
ParseAlphabet == {"0", "1", "f", "A", "x", "X", "g", "-", "+"}

ShortStrings == UNION { [1..k -> ParseAlphabet] : k \in 0..MaxLen }

\* digit strings around 2^63 and 2^64
EdgeDigits ==
    { <<"7">> \o Rep("f", WordDigits - 1),
      <<"7">> \o Rep("F", WordDigits - 1),
      <<"0", "7">> \o Rep("f", WordDigits - 1),
      <<"8">> \o Rep("0", WordDigits - 1),
      <<"8">> \o Rep("0", WordDigits - 2) \o <<"1">>,
      Rep("f", WordDigits),
      <<"1">> \o Rep("0", WordDigits),
      Rep("0", WordDigits + 1) }

EdgeStrings == { sg \o d : sg \in {<<>>, <<"-">>, <<"+">>}, d \in EdgeDigits }

HexInputs == { p \o s : p \in {<<>>, <<"0", "x">>}, s \in ShortStrings \cup EdgeStrings }

ParseInit ==
    /\ prevHeight \in {Zero64, [neg |-> FALSE, abs |-> <<2>>]}
    /\ warningCount \in {0, 1}
    /\ criticalCount = defaultCriticalCount
    /\ ret = NoRet
    /\ retErr = NotCalled
    /\ hexStr \in HexInputs
    /\ parsed = NoParse
    /\ last = NoTick
    /\ hist = <<>>
    /\ calls = NoCalls
    /\ race = NoRace

HexCall ==
    /\ parsed = NoParse
    /\ parsed' = hexToInt64(hexStr)
    /\ UNCHANGED <<prevHeight, warningCount, criticalCount, ret, retErr, hexStr, last, hist,
                   calls, race>>

ParseNext == HexCall

ParseSpec == ParseInit /\ [][ParseNext]_vars

(***************************************************************************)
(* Overlapping calls.  The host serves each request in a goroutine of its  *)
(* own and pluginFeature takes no lock, so two calls can be inside the     *)
(* function together.  Here a call is a sequence of steps, one for each    *)
(* read or write of prevHeight and warningCount; everything before line    *)
(* 105 touches only locals and is one step.                                *)
(***************************************************************************)
\* heights the globals hold when the two calls arrive
RaceHeights == { hexToInt64(s).val : s \in {Str0x(<<"0">>), Str0x(<<"1">>), Str0x(<<"2">>)} }

RaceInit ==
    /\ prevHeight \in RaceHeights
    /\ warningCount \in 0..MaxTicks
    /\ criticalCount \in CriticalFlags
    /\ ret = NoRet
    /\ retErr = NotCalled
    /\ hexStr = <<>>
    /\ parsed = NoParse
    /\ last = NoTick
    /\ hist = <<>>
    /\ calls = NoCalls
    /\ race = [prevHeight |-> prevHeight, warningCount |-> warningCount, overlapped |-> FALSE]

InCall(c) == c.pc \notin {"idle", "returned"}

\* a step of g while another goroutine is inside pluginFeature
Overlaps(g) == \E o \in Goroutines \ {g} : InCall(calls[o])

Step(g, c) ==
    /\ calls' = [calls EXCEPT ![g] = c]
    /\ race' = [race EXCEPT !.overlapped = @ \/ Overlaps(g)]
    /\ ret' = IF c.pc = "returned" THEN c.ret ELSE ret
    /\ retErr' = IF c.pc = "returned" THEN c.err ELSE retErr

\* lines 55-103: the Post, the decode and the parse; a failure returns
Call(g, post) ==
    LET dec == Unmarshal(post)
        h == hexToInt64(dec.Result)
        e == Evaluate(post, prevHeight, warningCount, criticalCount)
    IN  /\ calls[g].pc = "idle"
        /\ IF e.compared
           THEN Step(g, [calls[g] EXCEPT !.pc = "compare", !.post = post,
                                         !.latestHeight = h.val, !.ret = InitialRet])
           ELSE Step(g, [calls[g] EXCEPT !.pc = "returned", !.post = post,
                                         !.ret = e.ret, !.err = e.err])
        /\ hexStr' = IF e.parseCalled THEN dec.Result ELSE hexStr
        /\ parsed' = IF e.parseCalled THEN h ELSE parsed
        /\ UNCHANGED <<prevHeight, warningCount, criticalCount, last, hist>>

\* Compare with >= in place of >
CompareNotBelow(g) ==
    LET c == calls[g]
    IN  /\ c.pc = "compare"
        /\ IF ~Less64(c.latestHeight, prevHeight)
           THEN Step(g, [c EXCEPT !.pc = "reset",
                                  !.ret.Message = <<"Block height increasing. Current height: %d",
                                                    c.latestHeight>>,
                                  !.ret.Severity = "INFO"])
           ELSE Step(g, [c EXCEPT !.pc = "load"])
        /\ UNCHANGED <<prevHeight, warningCount, criticalCount, hexStr, parsed, last, hist>>

\* line 107: the read of prevHeight (lines 108-109 set locals)
Compare(g) ==
    LET c == calls[g]
    IN  /\ c.pc = "compare"
        /\ IF Less64(prevHeight, c.latestHeight)
           THEN Step(g, [c EXCEPT !.pc = "reset",
                                  !.ret.Message = <<"Block height increasing. Current height: %d",
                                                    c.latestHeight>>,
                                  !.ret.Severity = "INFO"])
           ELSE Step(g, [c EXCEPT !.pc = "load"])
        /\ UNCHANGED <<prevHeight, warningCount, criticalCount, hexStr, parsed, last, hist>>

\* line 110: warningCount = 0
Reset(g) ==
    /\ calls[g].pc = "reset"
    /\ warningCount' = 0
    /\ Step(g, [calls[g] EXCEPT !.pc = "setprev"])
    /\ UNCHANGED <<prevHeight, criticalCount, hexStr, parsed, last, hist>>

\* line 112, first half of warningCount++: the read
IncLoad(g) ==
    /\ calls[g].pc = "load"
    /\ Step(g, [calls[g] EXCEPT !.pc = "store", !.load = warningCount])
    /\ UNCHANGED <<prevHeight, warningCount, criticalCount, hexStr, parsed, last, hist>>

\* line 112, second half of warningCount++: the write
IncStore(g) ==
    /\ calls[g].pc = "store"
    /\ warningCount' = calls[g].load + 1
    /\ Step(g, [calls[g] EXCEPT !.pc = "grade"])
    /\ UNCHANGED <<prevHeight, criticalCount, hexStr, parsed, last, hist>>

\* line 113: the read of warningCount for the threshold (114-115 set locals)
Grade(g) ==
    LET c == calls[g]
    IN  /\ c.pc = "grade"
        /\ IF warningCount > criticalCount
           THEN Step(g, [c EXCEPT !.pc = "setprev",
                                  !.ret.Message =
                                      <<"Block height stuck more than %d times. Current height: %d",
                                        criticalCount, c.latestHeight>>,
                                  !.ret.Severity = "CRITICAL"])
           ELSE Step(g, [c EXCEPT !.pc = "message", !.ret.Severity = "WARNING"])
        /\ UNCHANGED <<prevHeight, warningCount, criticalCount, hexStr, parsed, last, hist>>

\* line 117: the read of warningCount for the WARNING message
WarnMessage(g) ==
    LET c == calls[g]
    IN  /\ c.pc = "message"
        /\ Step(g, [c EXCEPT !.pc = "setprev",
                              !.ret.Message = <<"Block height stuck %d times. Current height: %d",
                                                warningCount, c.latestHeight>>])
        /\ UNCHANGED <<prevHeight, warningCount, criticalCount, hexStr, parsed, last, hist>>

\* lines 122-126: STATE_SUCCESS, prevHeight = latestHeight, return ret, nil
SetPrev(g) ==
    LET c == calls[g]
    IN  /\ c.pc = "setprev"
        /\ prevHeight' = c.latestHeight
        /\ Step(g, [c EXCEPT !.pc = "returned", !.ret.State = "SUCCESS", !.err = Nil])
        /\ UNCHANGED <<warningCount, criticalCount, hexStr, parsed, last, hist>>

RaceNext ==
    \E g \in Goroutines :
        \/ \E post \in Posts : Call(g, post)
        \/ Compare(g)
        \/ Reset(g)
        \/ IncLoad(g)
        \/ IncStore(g)
        \/ Grade(g)
        \/ WarnMessage(g)
        \/ SetPrev(g)

RaceSpec == RaceInit /\ [][RaceNext]_vars

(***************************************************************************)
(* Vocabulary of the properties.                                           *)
(***************************************************************************)
RECURSIVE NatOf(_)
\* the number a short digit sequence denotes
NatOf(z) == IF z = <<>> THEN 0 ELSE NatOf(SubSeq(z, 1, Len(z) - 1)) * 16 + z[Len(z)]

\* the number a small int64 denotes
Num(v) == IF v.neg THEN 0 - NatOf(v.abs) ELSE NatOf(v.abs)

\* a tick fails on a transport error, a decode error or a parse error
FailedPost(post) ==
    post.err # Nil \/ ~post.json \/ hexToInt64(post.result).err # Nil

\* the height a successful tick observes
Observed(post) == hexToInt64(post.result).val

TickDone == last.post.err # NotCalled

SuccessTick == TickDone /\ ~FailedPost(last.post)

FailedTick == TickDone /\ FailedPost(last.post)

OkTick(i) == ~FailedPost(hist[i].post)

Obs(i) == Num(Observed(hist[i].post))

RECURSIVE PrevObs(_)
\* the height of the latest successful tick before tick i, 0 when none
PrevObs(i) ==
    IF i = 1 THEN 0
    ELSE IF OkTick(i - 1) THEN Obs(i - 1)
    ELSE PrevObs(i - 1)

Stall(i) == OkTick(i) /\ Obs(i) <= PrevObs(i)

Rise(i) == OkTick(i) /\ Obs(i) > PrevObs(i)

(***************************************************************************)
(* C1.  A successful observation above prevHeight returns INFO with        *)
(* STATE_SUCCESS and a nil error and leaves warningCount at 0, whatever    *)
(* warningCount was before the call.                                       *)
(***************************************************************************)
IncreaseReturnsInfoAndResets ==
    (SuccessTick /\ Num(Observed(last.post)) > Num(last.prevHeight))
        => /\ ret.Severity = "INFO"
           /\ ret.State = "SUCCESS"
           /\ retErr = Nil
           /\ warningCount = 0

IncreaseAfterCriticalRun ==
    /\ SuccessTick
    /\ Num(Observed(last.post)) > Num(last.prevHeight)
    /\ criticalCount >= 1
    /\ last.warningCount > criticalCount
    /\ ret.Severity = "INFO"
    /\ warningCount = 0

(***************************************************************************)
(* C2.  A successful observation not above prevHeight adds exactly 1 to    *)
(* warningCount and returns CRITICAL exactly when the new warningCount is  *)
(* greater than criticalCount, WARNING otherwise, with STATE_SUCCESS.      *)
(***************************************************************************)
StallIncrementsAndGrades ==
    (SuccessTick /\ Num(Observed(last.post)) <= Num(last.prevHeight))
        => /\ warningCount = last.warningCount + 1
           /\ ret.Severity \in {"WARNING", "CRITICAL"}
           /\ (ret.Severity = "CRITICAL") <=> (warningCount > criticalCount)
           /\ ret.State = "SUCCESS"
           /\ retErr = Nil

StallAtThresholdIsWarning ==
    /\ SuccessTick
    /\ Num(Observed(last.post)) <= Num(last.prevHeight)
    /\ criticalCount = defaultCriticalCount
    /\ warningCount = criticalCount
    /\ ret.Severity = "WARNING"

(***************************************************************************)
(* C3.  In a run of consecutive stalls that starts with warningCount = 0   *)
(* the k-th stall returns WARNING when k <= criticalCount and CRITICAL     *)
(* when k > criticalCount, and leaves warningCount = k; with the default   *)
(* threshold 3 the fourth stall is the first CRITICAL, and every later     *)
(* stall of the run is CRITICAL too.                                       *)
(***************************************************************************)
RECURSIVE RunLengths(_, _, _, _)
\* for every tick from i on: its place k in a run of consecutive stalls that
\* began with no stall pending, 0 for a tick that is in no such run.  prev
\* is the latest observed height, zero says that no stall is pending, run is
\* the place of tick i - 1
RunLengths(i, prev, zero, run) ==
    IF i > Len(hist) THEN <<>>
    ELSE IF ~OkTick(i) THEN <<0>> \o RunLengths(i + 1, prev, zero, 0)
    ELSE IF Obs(i) > prev THEN <<0>> \o RunLengths(i + 1, Obs(i), TRUE, 0)
    ELSE LET k == IF run > 0 THEN run + 1 ELSE IF zero THEN 1 ELSE 0
         IN  <<k>> \o RunLengths(i + 1, Obs(i), FALSE, k)

StallRunGrading ==
    LET place == RunLengths(1, 0, TRUE, 0)
    IN  \A j \in 1..Len(hist) :
            place[j] > 0
                => /\ hist[j].ret.Severity =
                        IF place[j] > criticalCount THEN "CRITICAL" ELSE "WARNING"
                   /\ (j = Len(hist) => warningCount = place[j])

FourthStallFirstCritical ==
    /\ criticalCount = defaultCriticalCount
    /\ Len(hist) >= 4
    /\ \A m \in 1..4 : Stall(m)
    /\ \A m \in 1..3 : hist[m].ret.Severity = "WARNING"
    /\ hist[4].ret.Severity = "CRITICAL"
    /\ warningCount = 4

(***************************************************************************)
(* C4.  After every successful evaluation prevHeight is the height that    *)
(* evaluation observed, also when the observation is lower than            *)
(* prevHeight was.                                                         *)
(***************************************************************************)
PrevHeightIsLatestObservation ==
    SuccessTick => prevHeight = Observed(last.post)

PrevHeightLowered ==
    /\ SuccessTick
    /\ ~prevHeight.neg
    /\ Num(prevHeight) < Num(last.prevHeight)
    /\ prevHeight = Observed(last.post)

(***************************************************************************)
(* C5.  A transport error, a decode error or a parse error makes the call  *)
(* return CRITICAL, STATE_FAILURE and a non-nil error without reaching the *)
(* comparison with prevHeight.                                             *)
(***************************************************************************)
FailureShortCircuits ==
    FailedTick
        => /\ ret.Severity = "CRITICAL"
           /\ ret.State = "FAILURE"
           /\ retErr \notin {Nil, NotCalled}
           /\ ~last.compared

AllThreeFailuresSeen ==
    /\ FailedTick
    /\ ret.State = "FAILURE"
    /\ \E i \in 1..Len(hist) : hist[i].post.err # Nil
    /\ \E i \in 1..Len(hist) : hist[i].post.err = Nil /\ ~hist[i].post.json
    /\ \E i \in 1..Len(hist) :
          /\ hist[i].post.err = Nil
          /\ hist[i].post.json
          /\ hexToInt64(hist[i].post.result).err = ErrParseHex
    /\ \E i \in 1..Len(hist) :
          /\ hist[i].post.err = Nil
          /\ hist[i].post.json
          /\ hexToInt64(hist[i].post.result).err = ErrTooLarge

(***************************************************************************)
(* C6.  A failed tick leaves prevHeight, warningCount and criticalCount    *)
(* as they were before the tick.                                           *)
(***************************************************************************)
FailedTickKeepsState ==
    [][(hist' # hist /\ FailedPost(last'.post))
          => /\ prevHeight' = prevHeight
             /\ warningCount' = warningCount
             /\ criticalCount' = criticalCount]_vars

FailedTickDuringStall ==
    /\ FailedTick
    /\ warningCount > 0
    /\ prevHeight # Zero64
    /\ prevHeight = last.prevHeight
    /\ warningCount = last.warningCount

(***************************************************************************)
(* C7.  The results of the successful ticks and the final prevHeight and   *)
(* warningCount are those of the same sequence of ticks with the failed    *)
(* ticks removed.                                                          *)
(***************************************************************************)
OkEntry(h) == ~FailedPost(h.post)

RECURSIVE Replay(_, _)
\* the calls of a sequence of ticks, one after the other, from state st
Replay(entries, st) ==
    IF entries = <<>> THEN st
    ELSE LET e == Evaluate(Head(entries).post, st.prevHeight, st.warningCount, criticalCount)
         IN  Replay(Tail(entries),
                    [prevHeight |-> e.prevHeight, warningCount |-> e.warningCount,
                     results |-> Append(st.results, <<e.ret, e.err>>)])

FailedTicksAreInvisible ==
    LET ok == SelectSeq(hist, OkEntry)
        r == Replay(ok, [prevHeight |-> Zero64, warningCount |-> 0, results |-> <<>>])
    IN  /\ r.prevHeight = prevHeight
        /\ r.warningCount = warningCount
        /\ r.results = [i \in 1..Len(ok) |-> <<ok[i].ret, ok[i].err>>]

CriticalAcrossFailedTicks ==
    /\ criticalCount = 1
    /\ Len(hist) >= 4
    /\ Stall(1) /\ ~OkTick(2) /\ ~OkTick(3) /\ Stall(4)
    /\ hist[1].ret.Severity = "WARNING"
    /\ hist[4].ret.Severity = "CRITICAL"
    /\ warningCount = 2

(***************************************************************************)
(* Vocabulary of the parser's properties: the hexadecimal digits and the   *)
(* number a string of them denotes, written down independently of the      *)
(* scanner.                                                                *)
(***************************************************************************)
HexDigitValue ==
    ("0" :> 0) @@ ("1" :> 1) @@ ("2" :> 2) @@ ("3" :> 3) @@ ("4" :> 4) @@
    ("5" :> 5) @@ ("6" :> 6) @@ ("7" :> 7) @@ ("8" :> 8) @@ ("9" :> 9) @@
    ("a" :> 10) @@ ("b" :> 11) @@ ("c" :> 12) @@ ("d" :> 13) @@ ("e" :> 14) @@
    ("f" :> 15) @@ ("A" :> 10) @@ ("B" :> 11) @@ ("C" :> 12) @@ ("D" :> 13) @@
    ("E" :> 14) @@ ("F" :> 15)

\* one or more characters, all of [0-9a-fA-F]
IsHexDigits(s) == s # <<>> /\ \A i \in 1..Len(s) : s[i] \in DOMAIN HexDigitValue

\* what is left of the string after an optional lower-case "0x"
Remaining(s) ==
    IF Len(s) >= 2 /\ s[1] = "0" /\ s[2] = "x" THEN [i \in 1..(Len(s) - 2) |-> s[i + 2]]
    ELSE s

\* the magnitude a string of hex digits denotes
DigitsOf(s) == Norm([i \in 1..Len(s) |-> HexDigitValue[s[i]]])

RECURSIVE PlaceValue(_, _)
\* the sum of digit * 16^place over the last n characters of a short string
PlaceValue(s, n) ==
    IF n = 0 THEN 0
    ELSE HexDigitValue[s[Len(s) - n + 1]] * 16 ^ (n - 1) + PlaceValue(s, n - 1)

\* a magnitude of at most 2^63 - 1
FitsInt64(z) == Len(z) < WordDigits \/ (Len(z) = WordDigits /\ z[1] <= 7)

HexCalled == parsed # NoParse

(***************************************************************************)
(* C8.  hexToInt64 fails whenever what remains after the optional "0x" is  *)
(* empty or has a character outside [0-9a-fA-F], a leading sign included.  *)
(***************************************************************************)
MalformedHexFails ==
    (HexCalled /\ ~IsHexDigits(Remaining(hexStr))) => parsed.err # Nil

(***************************************************************************)
(* C9.  hexToInt64 fails with the overflow error whenever the parsed       *)
(* magnitude is above 2^63 - 1, and a value it returns is the parsed       *)
(* number, never a truncated or wrapped one.                               *)
(***************************************************************************)
OverflowFails ==
    HexCalled =>
        LET r == SetString(Remaining(hexStr), 16)
        IN  /\ (r.ok /\ ~FitsInt64(r.n.abs)) => parsed.err = ErrTooLarge
            /\ (r.ok /\ parsed.err = Nil) => parsed.val = r.n

(***************************************************************************)
(* C10.  For an optional "0x" followed by one or more hex digits of either *)
(* case, leading zeros allowed, denoting at most 2^63 - 1, hexToInt64      *)
(* returns exactly that number and a nil error, and the call leaves        *)
(* prevHeight, warningCount and criticalCount alone, whatever they are.    *)
(***************************************************************************)
ValidHexValue ==
    LET body == Remaining(hexStr)
    IN  (IsHexDigits(body) /\ FitsInt64(DigitsOf(body)))
            => /\ parsed = [val |-> [neg |-> FALSE, abs |-> DigitsOf(body)], err |-> Nil]
               /\ Len(body) <= MaxLen => Num(parsed.val) = PlaceValue(body, Len(body))

ValidHexParsesExactly ==
    [][(~HexCalled /\ HexCalled')
          => /\ ValidHexValue'
             /\ UNCHANGED <<prevHeight, warningCount, criticalCount>>]_vars

MaxInt64WithLeadingZero ==
    /\ HexCalled
    /\ hexStr = <<"0", "x", "0", "7">> \o Rep("f", WordDigits - 1)
    /\ prevHeight # Zero64
    /\ parsed.err = Nil
    /\ parsed.val = [neg |-> FALSE, abs |-> <<7>> \o Rep(15, WordDigits - 1)]

(***************************************************************************)
(* C11.  Heights are non-negative: a value hexToInt64 returns without an   *)
(* error is >= 0, and prevHeight is >= 0 in every reachable state.         *)
(***************************************************************************)
HeightsNonNegative ==
    /\ ~prevHeight.neg
    /\ (HexCalled /\ parsed.err = Nil) => ~parsed.val.neg

(***************************************************************************)
(* C12.  pluginFeature takes no lock.  Two calls that do not overlap leave *)
(* the globals and return the results of one of the two serial orders;     *)
(* two calls that overlap can leave warningCount different from what both  *)
(* serial orders give: an increment of warningCount is lost.               *)
(***************************************************************************)
AllReturned == \A g \in Goroutines : calls[g].pc = "returned"

\* the two calls one after the other, first then second, from the globals
\* they found
SerialRun(first, second) ==
    LET e1 == Evaluate(calls[first].post, race.prevHeight, race.warningCount, criticalCount)
        e2 == Evaluate(calls[second].post, e1.prevHeight, e1.warningCount, criticalCount)
    IN  [prevHeight |-> e2.prevHeight, warningCount |-> e2.warningCount,
         rets |-> [g \in Goroutines |-> IF g = first THEN e1.ret ELSE e2.ret]]

SerialOutcomes ==
    { SerialRun(o[1], o[2]) : o \in { p \in Goroutines \X Goroutines : p[1] # p[2] } }

RaceOutcome ==
    [prevHeight |-> prevHeight, warningCount |-> warningCount,
     rets |-> [g \in Goroutines |-> calls[g].ret]]

SequentialCallsAreSerial ==
    (AllReturned /\ ~race.overlapped) => RaceOutcome \in SerialOutcomes

LostIncrement ==
    /\ AllReturned
    /\ race.overlapped
    /\ \A g \in Goroutines : calls[g].ret.Severity \in {"WARNING", "CRITICAL"}
    /\ warningCount = race.warningCount + 1
    /\ \A s \in SerialOutcomes : s.warningCount = race.warningCount + 2
    /\ RaceOutcome \notin SerialOutcomes

(***************************************************************************)
(* C13.  Every invocation returns a result value, whatever the outcome of  *)
(* the Post, the decode and the parse, and no outcome stops the later      *)
(* invocations: with the host invoking on its schedule, every run of       *)
(* outcomes gets through all its ticks, each of which has returned.  An    *)
(* invocation makes one Post and has no retry.                             *)
(***************************************************************************)
TickReturned ==
    /\ TickDone =>
          /\ ret.State \in {"SUCCESS", "FAILURE"}
          /\ ret = hist[Len(hist)].ret
          /\ retErr = hist[Len(hist)].err
          /\ last.post = hist[Len(hist)].post
    /\ \A i \in 1..Len(hist) : hist[i].post \in Posts /\ hist[i].ret # NoRet

EveryTickReturns == []TickReturned /\ <>(Len(hist) = MaxTicks)

TicksAfterFailures ==
    /\ Len(hist) = MaxTicks
    /\ ~OkTick(1) /\ hist[1].ret.State = "FAILURE"
    /\ ~OkTick(2) /\ hist[2].ret.State = "FAILURE"
    /\ hist[1].err # hist[2].err
    /\ OkTick(3) /\ hist[3].ret.State = "SUCCESS"
    /\ TickDone

(***************************************************************************)
(* Vocabulary of the properties of a whole history.                        *)
(***************************************************************************)
RECURSIVE Track(_)
\* for each of the ticks 1..i: whether it succeeded, the height it observed
\* and the height of the latest successful tick before it (0 when none)
Track(i) ==
    IF i = 0 THEN <<>>
    ELSE LET t == Track(i - 1)
             ok == ~FailedPost(hist[i].post)
         IN  Append(t, [ok |-> ok,
                        obs |-> IF ok THEN Num(Observed(hist[i].post)) ELSE 0,
                        prev |-> IF i = 1 THEN 0
                                 ELSE IF t[i - 1].ok THEN t[i - 1].obs
                                 ELSE t[i - 1].prev])

\* the successful ticks of a track
OkTicks(t) == { i \in DOMAIN t : t[i].ok }

\* no successful tick of the track after tick i
LatestOk(t, i) == \A j \in OkTicks(t) : j <= i

(***************************************************************************)
(* C14.  From the initial state the first successful evaluation returns    *)
(* INFO when the observed height is above 0; an observed height of 0 is a  *)
(* stall: warningCount becomes 1 and the result is WARNING, or CRITICAL    *)
(* when criticalCount < 1.                                                 *)
(***************************************************************************)
FirstEvaluation ==
    LET t == Track(Len(hist))
    IN  OkTicks(t) # {} =>
            LET f == CHOOSE i \in OkTicks(t) : \A j \in OkTicks(t) : i <= j
            IN  /\ t[f].obs > 0 =>
                      /\ hist[f].ret.Severity = "INFO"
                      /\ LatestOk(t, f) => warningCount = 0
                /\ t[f].obs = 0 =>
                      /\ hist[f].ret.Severity =
                            IF criticalCount < 1 THEN "CRITICAL" ELSE "WARNING"
                      /\ hist[f].ret.State = "SUCCESS"
                      /\ LatestOk(t, f) => warningCount = 1

FirstHeightZeroIsStall ==
    /\ Len(hist) = 1
    /\ OkTick(1)
    /\ Obs(1) = 0
    /\ criticalCount = defaultCriticalCount
    /\ ret.Severity = "WARNING"
    /\ warningCount = 1

(***************************************************************************)
(* C15.  With the calls one after the other, warningCount is >= 0 and is   *)
(* the number of successful evaluations since the latest successful        *)
(* evaluation that was strictly increasing, or since the start when there  *)
(* was none; it is 0 exactly when no evaluation has succeeded yet or the   *)
(* latest successful one was strictly increasing.                          *)
(***************************************************************************)
StallCountCountsSuccesses ==
    LET t == Track(Len(hist))
        rises == { i \in OkTicks(t) : t[i].obs > t[i].prev }
        since == { i \in OkTicks(t) : \A r \in rises : r < i }
    IN  /\ warningCount >= 0
        /\ warningCount = Cardinality(since)
        /\ (warningCount = 0) <=>
              (OkTicks(t) = {} \/ \E i \in rises : LatestOk(t, i))

TwoStallsAroundFailure ==
    /\ Len(hist) = 4
    /\ Rise(1) /\ Stall(2) /\ ~OkTick(3) /\ Stall(4)
    /\ warningCount = 2

(***************************************************************************)
(* C16.  No returned result carries SEVERITY_UNKNOWN or STATE_NONE: a      *)
(* return is STATE_SUCCESS with INFO, WARNING or CRITICAL and a nil error, *)
(* or STATE_FAILURE with CRITICAL and a non-nil error.                     *)
(***************************************************************************)
WellFormedReturn(r, e) ==
    \/ /\ r.State = "SUCCESS"
       /\ r.Severity \in {"INFO", "WARNING", "CRITICAL"}
       /\ e = Nil
    \/ /\ r.State = "FAILURE"
       /\ r.Severity = "CRITICAL"
       /\ e \in {ErrTransport, ErrDecode, ErrParseHex, ErrTooLarge}

ReturnsAreWellFormed ==
    /\ TickDone => WellFormedReturn(ret, retErr)
    /\ \A i \in 1..Len(hist) :
          /\ WellFormedReturn(hist[i].ret, hist[i].err)
          /\ (hist[i].err # Nil) <=> (hist[i].ret.State = "FAILURE")

EveryKindOfReturn ==
    /\ Len(hist) = 4
    /\ hist[1].ret.Severity = "INFO"
    /\ hist[2].ret.Severity = "WARNING"
    /\ hist[3].ret.Severity = "CRITICAL" /\ hist[3].ret.State = "SUCCESS"
    /\ hist[4].ret.State = "FAILURE" /\ hist[4].err # Nil

(***************************************************************************)
(* C17.  A successful observation is graded against the successful         *)
(* observation just before it, not against the highest height seen: after  *)
(* a drop from h to l, an observation above l returns INFO and resets      *)
(* warningCount although it is below h.                                    *)
(***************************************************************************)
GradedAgainstPreviousOnly ==
    LET t == Track(Len(hist))
    IN  \A k \in OkTicks(t) :
            /\ t[k].obs > t[k].prev =>
                  /\ hist[k].ret.Severity = "INFO"
                  /\ LatestOk(t, k) => warningCount = 0
            /\ t[k].obs <= t[k].prev =>
                  hist[k].ret.Severity \in {"WARNING", "CRITICAL"}

RiseBelowEarlierHeight ==
    /\ Len(hist) = 3
    /\ OkTick(1) /\ OkTick(2) /\ OkTick(3)
    /\ Obs(1) = 2 /\ Obs(2) = 0 /\ Obs(3) = 1
    /\ hist[2].ret.Severity \in {"WARNING", "CRITICAL"}
    /\ hist[3].ret.Severity = "INFO"
    /\ warningCount = 0

(***************************************************************************)
(* C18.  With criticalCount 0 or negative no evaluation returns WARNING:   *)
(* every stall, the first included, returns CRITICAL.  WARNING is returned *)
(* only with 1 <= warningCount <= criticalCount after the increment.       *)
(***************************************************************************)
WarningOnlyUpToThreshold ==
    /\ (TickDone /\ ret.Severity = "WARNING") =>
          (1 <= warningCount /\ warningCount <= criticalCount)
    /\ criticalCount <= 0 =>
          LET t == Track(Len(hist))
          IN  \A i \in 1..Len(hist) :
                  /\ hist[i].ret.Severity # "WARNING"
                  /\ (t[i].ok /\ t[i].obs <= t[i].prev) =>
                        hist[i].ret.Severity = "CRITICAL"

FirstStallCriticalAtZero ==
    /\ criticalCount = 0
    /\ Len(hist) = 2
    /\ Rise(1) /\ Stall(2)
    /\ hist[2].ret.Severity = "CRITICAL"
    /\ warningCount = 1

====
